---------------------------- MODULE Spec2Model ----------------------------
(***************************************************************************)
(* PandaPrint (pandaprint/server.py): an OctoPrint-compatible HTTP relay   *)
(* that splits an uploaded multi-plate 3mf archive into one archive per    *)
(* plate (PrintAPI._parse_file), stores each over implicit-TLS FTP and,    *)
(* when asked, publishes a print command over MQTT (PrintAPI.upload).      *)
(*                                                                         *)
(* Python strings are modelled as sequences of one-character strings, so   *)
(* that startswith, endswith, split, rsplit, replace, "in" and lower are   *)
(* computed character by character, as Python computes them.               *)
(***************************************************************************)
EXTENDS Integers, Sequences, FiniteSets, TLC

(***************************************************************************)
(* Python str operations                                                   *)
(***************************************************************************)

\* s.startswith(p)
StartsWith(s, p) == Len(s) >= Len(p) /\ SubSeq(s, 1, Len(p)) = p

\* s.endswith(p)
EndsWith(s, p) == Len(s) >= Len(p) /\ SubSeq(s, Len(s) - Len(p) + 1, Len(s)) = p

\* The positions at which sub occurs in s
Occurrences(s, sub) ==
    {i \in 1..(Len(s) - Len(sub) + 1) : SubSeq(s, i, i + Len(sub) - 1) = sub}

\* sub in s
Contains(s, sub) == Occurrences(s, sub) # {}

\* s.find(sub) with 1-based positions, 0 when absent
Find(s, sub) ==
    IF Occurrences(s, sub) = {} THEN 0
    ELSE CHOOSE i \in Occurrences(s, sub) : \A j \in Occurrences(s, sub) : i <= j

\* s.rfind(sub) with 1-based positions, 0 when absent
RFind(s, sub) ==
    IF Occurrences(s, sub) = {} THEN 0
    ELSE CHOOSE i \in Occurrences(s, sub) : \A j \in Occurrences(s, sub) : i >= j

\* s.split(sep, 1): a list of one part (no separator) or two parts
Split1(s, sep) ==
    LET i == Find(s, sep) IN
    IF i = 0 THEN <<s>>
    ELSE <<SubSeq(s, 1, i - 1), SubSeq(s, i + Len(sep), Len(s))>>

\* s.rsplit(sep, 1): a list of one part (no separator) or two parts
RSplit1(s, sep) ==
    LET i == RFind(s, sep) IN
    IF i = 0 THEN <<s>>
    ELSE <<SubSeq(s, 1, i - 1), SubSeq(s, i + Len(sep), Len(s))>>

\* s.replace(old, new): every non-overlapping occurrence, left to right
RECURSIVE Replace(_, _, _)
Replace(s, old, new) ==
    LET i == Find(s, old) IN
    IF i = 0 THEN s
    ELSE SubSeq(s, 1, i - 1) \o new
         \o Replace(SubSeq(s, i + Len(old), Len(s)), old, new)

Digits == <<"0", "1", "2", "3", "4", "5", "6", "7", "8", "9">>

\* str(n) of a non-negative integer
RECURSIVE Str(_)
Str(n) ==
    IF n < 10 THEN <<Digits[n + 1]>>
    ELSE Str(n \div 10) \o <<Digits[(n % 10) + 1]>>

UpperToLower ==
    [c \in {"A", "E", "F", "L", "R", "S", "T", "U"} |->
        CASE c = "A" -> "a" [] c = "E" -> "e" [] c = "F" -> "f"
          [] c = "L" -> "l" [] c = "R" -> "r" [] c = "S" -> "s"
          [] c = "T" -> "t" [] c = "U" -> "u"]

\* s.lower(), over the letters the request values below are spelt with
Lower(s) ==
    [i \in 1..Len(s) |->
        IF s[i] \in DOMAIN UpperToLower THEN UpperToLower[s[i]] ELSE s[i]]

(***************************************************************************)
(* String literals of server.py                                            *)
(***************************************************************************)

MetadataPrefix == <<"M","e","t","a","d","a","t","a","/">>
GcodeSuffix == <<".","g","c","o","d","e">>
Dot == <<".">>
Dash == <<"-">>
One == <<"1">>
Ext3mf == <<".","3","m","f">>
ModelDir == <<"/","m","o","d","e","l","/">>
SdcardUrl ==
    <<"f","i","l","e",":","/","/","/","s","d","c","a","r","d","/","m","o","d","e","l","/">>
Plate1Gcode ==
    <<"M","e","t","a","d","a","t","a","/","p","l","a","t","e","_","1",".","g","c","o","d","e">>
StrTrue == <<"t","r","u","e">>
StrNone == <<"N","o","n","e">>
StrFalse == <<"F","a","l","s","e">>


(***************************************************************************)
(* Archives.  A ZIP file is its member list (name, data) in namelist       *)
(* order, together with who wrote the bytes: the same members written      *)
(* again by zipfile are different bytes from the file the slicer wrote.    *)
(***************************************************************************)

MaxMembers == 4
MaxPlates == 11

\* The sockets handed to a transfer client are numbered 1..MaxFd
MaxFd == 3

Member(name, data) == [name |-> name, data |-> data]

ZipBytes(members, writer) == [zip |-> TRUE, members |-> members, writer |-> writer]

\* An upload body that is not a ZIP file
NotAZip == [zip |-> FALSE, members |-> <<>>, writer |-> "client"]

PlatePath(pno, suffix) ==
    MetadataPrefix \o <<"p","l","a","t","e","_">> \o Str(pno) \o suffix

\* f'G0X{pno}\n'
Gcode(pno) == <<"G", "0", "X">> \o Str(pno)

PngSuffix == <<".","p","n","g">>
Md5Suffix == <<".","g","c","o","d","e",".","m","d","5">>
ModelPath == <<"3","D","/","3","d","m","o","d","e","l",".","m","o","d","e","l">>
ContentTypesPath ==
    <<"[","C","o","n","t","e","n","t","_","T","y","p","e","s","]",".","x","m","l">>
RelsPath == <<"_","r","e","l","s","/",".","r","e","l","s">>
SettingsPath ==
    <<"M","e","t","a","d","a","t","a","/","m","o","d","e","l","_","s","e","t","t","i","n","g","s",".","c","o","n","f","i","g">>

\* the test suite's archive of `plates` plates
make_zip_file(plates) ==
    ZipBytes(
        [i \in 1..(2 * plates + 3) |->
            IF i <= 2 * plates
            THEN LET pno == (i + 1) \div 2 IN
                 IF i % 2 = 1 THEN Member(PlatePath(pno, PngSuffix), <<"PNG">>)
                 ELSE Member(PlatePath(pno, GcodeSuffix), Gcode(pno))
            ELSE IF i = 2 * plates + 1 THEN Member(ModelPath, <<>>)
            ELSE IF i = 2 * plates + 2 THEN Member(ContentTypesPath, <<>>)
            ELSE Member(RelsPath, <<>>)],
        "slicer")

\* Members that archives are assembled from: plates whose numbers are and are
\* not substrings of each other, thumbnails, a checksum with a compound
\* extension, shared members with and without a digit in their path, a
\* metadata member without a plate number, and a directory entry (no '.').
Pool ==
    << Member(PlatePath(1, GcodeSuffix), Gcode(1)),
       Member(PlatePath(2, GcodeSuffix), Gcode(2)),
       Member(PlatePath(3, GcodeSuffix), Gcode(3)),
       Member(PlatePath(10, GcodeSuffix), Gcode(10)),
       Member(PlatePath(1, PngSuffix), <<"PNG1">>),
       Member(PlatePath(2, PngSuffix), <<"PNG2">>),
       Member(PlatePath(2, Md5Suffix), <<"MD5">>),
       Member(SettingsPath, <<"CONFIG">>),
       Member(ModelPath, <<"MODEL">>),
       Member(RelsPath, <<"RELS">>),
       Member(MetadataPrefix, <<>>) >>

PoolArchive(S) == ZipBytes(SelectSeq(Pool, LAMBDA m : m \in S), "slicer")

Archives ==
    {PoolArchive(S) : S \in {T \in SUBSET {Pool[i] : i \in 1..Len(Pool)} :
                                 Cardinality(T) <= MaxMembers}}
    \cup {make_zip_file(k) : k \in 0..MaxPlates}

(***************************************************************************)
(* PrintAPI._parse_file                                                    *)
(***************************************************************************)

\* zf.namelist()
namelist(zf) == [i \in 1..Len(zf.members) |-> zf.members[i].name]

\* zf.read(fn): the data of the last member of that name
ZfRead(zf, fn) ==
    LET idx == {i \in 1..Len(zf.members) : zf.members[i].name = fn}
    IN zf.members[CHOOSE i \in idx : \A j \in idx : i >= j].data

IsPlateGcode(x) == StartsWith(x, MetadataPrefix) /\ EndsWith(x, GcodeSuffix)

gcode_files(zf) == SelectSeq(namelist(zf), IsPlateGcode)

\* filename.rsplit('.', 1)[0]
basename(filename) == RSplit1(filename, Dot)[1]

\* "base, ext = fn.split('.', 1)" raises ValueError when fn holds no '.'
UnpackRaises(fn) == Len(Split1(fn, Dot)) # 2

\* The loop that collects the members of one plate
SelectsMember(fn, plate_no) ==
    IF StartsWith(fn, MetadataPrefix)
    THEN Contains(Split1(fn, Dot)[1], Str(plate_no))
    ELSE TRUE

plate(zf, plate_no) == SelectSeq(namelist(zf), LAMBDA fn : SelectsMember(fn, plate_no))

\* A member's name with its plate number left as it is
outfn_NotRenamed(fn, plate_no) ==
    LET base == Split1(fn, Dot)[1]
        ext == Split1(fn, Dot)[2]
    IN base \o Dot \o ext

\* The member's name in the plate's archive
outfn(fn, plate_no) ==
    LET base == Split1(fn, Dot)[1]
        ext == Split1(fn, Dot)[2]
    IN Replace(base, Str(plate_no), One) \o Dot \o ext

\* A plate archive whose data is read under the new name where the source
\* has a member of that name
PlateZip_ReadsRenamed(zf, plate_no) ==
    LET sel == plate(zf, plate_no) IN
    ZipBytes([i \in 1..Len(sel) |->
                 Member(outfn(sel[i], plate_no),
                        IF \E j \in 1..Len(zf.members) :
                               zf.members[j].name = outfn(sel[i], plate_no)
                        THEN ZfRead(zf, outfn(sel[i], plate_no))
                        ELSE ZfRead(zf, sel[i]))],
             "relay")

\* The new zipfile of one plate
PlateZip(zf, plate_no) ==
    LET sel == plate(zf, plate_no) IN
    ZipBytes([i \in 1..Len(sel) |->
                 Member(outfn(sel[i], plate_no), ZfRead(zf, sel[i]))],
             "relay")

\* Whether producing the archive of plate_no raises ValueError: in the
\* selection loop on a metadata member, or in the writing loop on a selected one
PlateRaises(zf, plate_no) ==
    \/ \E i \in 1..Len(zf.members) :
          StartsWith(zf.members[i].name, MetadataPrefix)
          /\ UnpackRaises(zf.members[i].name)
    \/ LET sel == plate(zf, plate_no)
       IN \E i \in 1..Len(sel) : UnpackRaises(sel[i])

Item(filename, content) == [filename |-> filename, content |-> content]

\* A splitter that writes a new archive for a single plate as well
SinglePlateItem_Rewritten(fp) ==
    Item(fp.filename, ZipBytes(fp.file.members, "relay"))

\* "There's only one plate, send the original file"
SinglePlateItem(fp) == Item(fp.filename, fp.file)

\* A base name cut at the first '.' of the filename instead of the last
PlateFilename_FirstDot(fp, plate_no) ==
    Split1(fp.filename, Dot)[1] \o Dash \o Str(plate_no) \o Ext3mf

\* f'{basename}-{plate_no}.3mf'
PlateFilename(fp, plate_no) ==
    basename(fp.filename) \o Dash \o Str(plate_no) \o Ext3mf

PlateItem(fp, plate_no) == Item(PlateFilename(fp, plate_no), PlateZip(fp.file, plate_no))

Yield(item) == [kind |-> "yield", item |-> item]
StopIteration == [kind |-> "stop", item |-> Item(<<>>, NotAZip)]
Raise(exc) == [kind |-> exc, item |-> Item(<<>>, NotAZip)]

\* One next() of the generator that has yielded n items so far
ParseNext(fp, n) ==
    IF ~fp.file.zip THEN Raise("BadZipFile")
    ELSE IF Len(gcode_files(fp.file)) = 1
    THEN IF n = 0 THEN Yield(SinglePlateItem(fp)) ELSE StopIteration
    ELSE IF n + 1 > Len(gcode_files(fp.file)) THEN StopIteration
    ELSE IF PlateRaises(fp.file, n + 1) THEN Raise("ValueError")
    ELSE Yield(PlateItem(fp, n + 1))


(***************************************************************************)
(* The process: the printers of the configuration, the worker threads of   *)
(* the HTTP server, and the printer's FTP and MQTT servers as seen on the   *)
(* wire.                                                                    *)
(***************************************************************************)

VARIABLES
    workers,        \* the request handling threads of the HTTP server
    phase,          \* "serving" until PandaServer.stop, then "stopping", "stopped"
    stop_i,         \* PrintAPI.stop: the position of its loop over the printers
    pc,             \* the place each worker's handler has reached
    printer,        \* upload/version local: the Printer looked up
    do_print,       \* upload local
    kw,             \* upload parameter: the form fields 'print' and 'file'
    first_filename, \* upload local
    gen,            \* how many items the _parse_file generator has yielded
    newitem,        \* upload loop variables newfilename, newfp
    ftp,            \* the state of the upload's FTPS session
    sock,           \* FTPS._sock of the upload's session
    status,         \* cherrypy.response.status of the worker's request
    exc,            \* the exception that ended the worker's request
    mqtt_of,        \* Printer._mqtt: the printer's MQTT instance, 0 for None
    mqtts,          \* every MQTT instance constructed, by id
    files,          \* the files on each printer's FTP server, by path
    log             \* the completed stores and publishes, in wire order

vars == <<workers, phase, stop_i, pc, kw, printer, do_print, first_filename, gen,
          newitem, ftp, sock, status, exc, mqtt_of, mqtts, files, log>>

locals == <<kw, printer, do_print, first_filename, gen, newitem>>

\* The printers of the configuration file
PrinterList ==
    << [name |-> "panda", host |-> "localhost", serial |-> <<"0","1","S">>,
        key |-> "5678", print_options |-> [use_ams |-> FALSE]] >>

Printers == {PrinterList[i] : i \in 1..Len(PrinterList)}

PrinterNames == {p.name : p \in Printers}

\* self.printers[pname]
PrinterNamed(pname) == CHOOSE p \in Printers : p.name = pname

NoPrinter ==
    [name |-> "", host |-> "", serial |-> <<>>, key |-> "",
     print_options |-> [use_ams |-> FALSE]]

\* None, and a value that is not None
None == {}
Some(v) == {v}
Value(o) == CHOOSE v \in o : TRUE

\* f"{x}" of a string or None
Format(o) == IF o = None THEN StrNone ELSE Value(o)

\* Request inputs
PrintValues == { <<"t","r","u","e">>, <<"T","r","u","e">>, <<"f","a","l","s","e">> }

Filenames ==
    { <<"j","o","b",".","3","m","f">>,
      <<"m","y",".","j","o","b",".","3","m","f">>,
      <<"j","o","b",".","z","i","p">>,
      <<"j","o","b">> }

FilePart(filename, file) == [filename |-> filename, file |-> file]

NoFile == FilePart(<<>>, NotAZip)
NoKw == [print |-> None, file |-> None]
NoExc == [type |-> "none", at |-> "none"]
NoItem == Item(<<>>, NotAZip)

\* The keyword arguments of an upload: 'print' and 'file' may each be absent
Kws ==
    {[print |-> pv, file |-> Some(FilePart(fn, f))] :
        pv \in {None} \cup {Some(v) : v \in PrintValues},
        fn \in Filenames, f \in Archives \cup {NotAZip}}
    \cup {[print |-> pv, file |-> None] : pv \in {None} \cup {Some(v) : v \in PrintValues}}

\* The uploads of the test suite: job.3mf with one plate or two, with print
\* or without, and a second one-plate archive of the same name
JobFilename == <<"j","o","b",".","3","m","f">>

TestKws ==
    {[print |-> pv, file |-> Some(FilePart(JobFilename, f))] :
        pv \in {None, Some(StrTrue)},
        f \in {make_zip_file(1), make_zip_file(2)}}

OverlapKws ==
    {[print |-> pv, file |-> Some(FilePart(JobFilename, f))] :
        pv \in {None, Some(StrTrue)},
        f \in {make_zip_file(1), PoolArchive({Pool[1]})}}

\* The truth value of the field instead: bool(kw.get('print', False))
DoPrint_Truthy(args) == args.print # None /\ Value(args.print) # <<>>

\* str(kw.get('print', False)).lower() == 'true'
DoPrint(args) ==
    LET value == IF args.print = None THEN StrFalse ELSE Value(args.print)
    IN Lower(value) = StrTrue

\* fp = kw['file']
fp(t) == IF kw[t].file = None THEN NoFile ELSE Value(kw[t].file)

\* An exception of type `type` raised by the call `at`
Exc(type, at) == [type |-> type, at |-> at]

\* What a truncated transfer leaves on the server
Truncated == [zip |-> FALSE, members |-> <<>>, writer |-> "truncated"]

(***************************************************************************)
(* FTPS: the transport socket of the session                               *)
(***************************************************************************)

\* A socket.socket, and the ssl.SSLSocket that context.wrap_socket makes of a
\* socket: `layers` counts the TLS layers between the socket and the wire
Socket(fd) == [cls |-> "socket", fd |-> fd, context |-> 0, layers |-> 0]

wrap_socket(context, s) ==
    [cls |-> "SSLSocket", fd |-> s.fd, context |-> context, layers |-> s.layers + 1]

\* isinstance(value, ssl.SSLSocket)
IsSSLSocket(s) == s.cls = "SSLSocket"

\* self.context of a worker's FTPS object; 0 is a context of somebody else
Context(t) == t

\* A setter that wraps whatever it is given
SockSetter_WrapsAlways(t, value) ==
    IF value # None THEN Some(wrap_socket(Context(t), Value(value))) ELSE value

\* FTPS.sock, the setter: the value that is stored in self._sock
SockSetter(t, value) ==
    IF value # None /\ ~IsSSLSocket(Value(value))
    THEN Some(wrap_socket(Context(t), Value(value)))
    ELSE value

\* The state when PandaServer has been constructed, with a pool of threads
InitWith(pool) ==
    /\ workers = pool
    /\ phase = "serving"
    /\ stop_i = 1
    /\ pc = [t \in workers |-> "idle"]
    /\ printer = [t \in workers |-> NoPrinter]
    /\ do_print = [t \in workers |-> FALSE]
    /\ kw = [t \in workers |-> NoKw]
    /\ first_filename = [t \in workers |-> None]
    /\ gen = [t \in workers |-> 0]
    /\ newitem = [t \in workers |-> NoItem]
    /\ ftp = [t \in workers |-> "none"]
    /\ sock = [t \in workers |-> None]
    /\ status = [t \in workers |-> "unset"]
    /\ exc = [t \in workers |-> NoExc]
    /\ mqtt_of = [n \in PrinterNames |-> 0]
    /\ mqtts = <<>>
    /\ files = [h \in {p.host : p \in Printers} |-> <<>>]
    /\ log = <<>>

Init == InitWith({1})


(***************************************************************************)
(* Printer.mqtt and MQTT                                                   *)
(***************************************************************************)

\* MQTT.__init__: a client connected to hostname:8883 with its loop started;
\* `queued` counts the messages handed to the client that its loop thread has
\* not yet written to the connection
NewMqtt(hostname) == [hostname |-> hostname, state |-> "connected", queued |-> 0]

\* A property that keeps nothing: every access sees no instance
MqttMissing_Always(pname) == mqtt_of[pname] >= 0

\* Printer.mqtt, the test "if not self._mqtt"
MqttMissing(pname) == mqtt_of[pname] = 0

\* Printer.mqtt up to the test: the worker goes on to construct an instance
\* when it sees none, and returns the one it sees otherwise
MqttGet(t, new, next) ==
    /\ pc' = [pc EXCEPT ![t] = IF MqttMissing(printer[t].name) THEN new ELSE next]
    /\ UNCHANGED <<mqtts, mqtt_of, exc>>

\* self._mqtt = self._mqtt or MQTT(...): the instance constructed is kept only
\* when the printer has none by then
MqttNew_KeepsFirst(t, next) ==
    \/ /\ mqtts' = Append(mqtts, NewMqtt(printer[t].host))
       /\ mqtt_of' = [mqtt_of EXCEPT ![printer[t].name] =
                         IF @ = 0 THEN Len(mqtts) + 1 ELSE @]
       /\ pc' = [pc EXCEPT ![t] = next]
       /\ exc' = exc
    \/ /\ pc' = [pc EXCEPT ![t] = "raised"]
       /\ exc' = [exc EXCEPT ![t] = Exc("OSError", "MQTT.client.connect")]
       /\ UNCHANGED <<mqtts, mqtt_of>>

\* self._mqtt = MQTT(self.host, 'bblp', self.key)
MqttNew(t, next) ==
    \/ /\ mqtts' = Append(mqtts, NewMqtt(printer[t].host))
       /\ mqtt_of' = [mqtt_of EXCEPT ![printer[t].name] = Len(mqtts) + 1]
       /\ pc' = [pc EXCEPT ![t] = next]
       /\ exc' = exc
    \/ \* client.connect raises: the printer's broker cannot be reached
       /\ pc' = [pc EXCEPT ![t] = "raised"]
       /\ exc' = [exc EXCEPT ![t] = Exc("OSError", "MQTT.client.connect")]
       /\ UNCHANGED <<mqtts, mqtt_of>>

(***************************************************************************)
(* PrintAPI.version                                                        *)
(***************************************************************************)

VersionBegin(t) ==
    /\ phase = "serving"
    /\ pc[t] = "idle"
    /\ \E pname \in PrinterNames \cup {"unknown"} :
          IF pname \in PrinterNames
          THEN /\ printer' = [printer EXCEPT ![t] = PrinterNamed(pname)]
               /\ pc' = [pc EXCEPT ![t] = "version_mqtt"]
               /\ exc' = exc
          ELSE /\ pc' = [pc EXCEPT ![t] = "raised"]
               /\ exc' = [exc EXCEPT ![t] = Exc("KeyError", "self.printers[pname]")]
               /\ printer' = printer
    /\ UNCHANGED <<workers, phase, stop_i, kw, do_print, first_filename, gen, newitem,
                   ftp, sock, status, mqtt_of, mqtts, files, log>>

VersionMqtt(t) ==
    /\ pc[t] = "version_mqtt"
    /\ MqttGet(t, "version_mqtt_new", "version_return")
    /\ UNCHANGED <<workers, phase, stop_i, locals, ftp, sock, status, files, log>>

VersionMqttNew(t) ==
    /\ pc[t] = "version_mqtt_new"
    /\ MqttNew(t, "version_return")
    /\ UNCHANGED <<workers, phase, stop_i, locals, ftp, sock, status, files, log>>

VersionReturn(t) ==
    /\ pc[t] = "version_return"
    /\ pc' = [pc EXCEPT ![t] = "done"]
    /\ status' = [status EXCEPT ![t] = "200 OK"]
    /\ UNCHANGED <<workers, phase, stop_i, locals, ftp, sock, exc, mqtt_of, mqtts, files, log>>


(***************************************************************************)
(* PrintAPI.upload                                                         *)
(***************************************************************************)

\* dict.update: the keys of `other` override those of d
Update(d, other) ==
    [k \in DOMAIN d \cup DOMAIN other |-> IF k \in DOMAIN other THEN other[k] ELSE d[k]]

\* print_data, before the printer's options are merged in
PrintData(first) ==
    [sequence_id |-> "0", command |-> "project_file", param |-> Plate1Gcode,
     project_id |-> "0", profile_id |-> "0", task_id |-> "0", subtask_id |-> "0",
     subtask_name |-> "", url |-> SdcardUrl \o Format(first), bed_type |-> "auto"]

\* f'device/{printer.serial}/request'
RequestTopic(p) ==
    <<"d","e","v","i","c","e","/">> \o p.serial \o <<"/","r","e","q","u","e","s","t">>

\* f'STOR /model/{newfilename}': the path stored to
StorPath(newfilename) == ModelDir \o newfilename

\* A store that leaves a file that is there as it is, as a command that does
\* not overwrite would
Put_KeepsExisting(dir, path, content) ==
    [x \in DOMAIN dir \cup {path} |-> IF x \in DOMAIN dir THEN dir[x] ELSE content]

Put(dir, path, content) ==
    [x \in DOMAIN dir \cup {path} |-> IF x = path THEN content ELSE dir[x]]

Stored(t, host, path, content) ==
    [op |-> "STOR", by |-> t, to |-> host, name |-> path, body |-> content]

Published(t, host, topic, payload) ==
    [op |-> "PUBLISH", by |-> t, to |-> host, name |-> topic, body |-> payload]

\* What the session does on the wire: CONNECT, LOGIN, and CLOSE
Session(t, op) ==
    [op |-> op, by |-> t, to |-> printer[t].host, name |-> <<>>, body |-> <<>>]

\* FTP.__exit__: quit() when the session has a socket, then close()
ExitWith(t) ==
    /\ ftp' = [ftp EXCEPT ![t] = "closed"]
    /\ sock' = [sock EXCEPT ![t] = None]
    /\ log' = IF sock[t] # None THEN Append(log, Session(t, "CLOSE")) ELSE log

\* An exception that leaves the session as it is: no with statement
RaiseInWith_LeavesOpen(t, type, at) ==
    /\ pc' = [pc EXCEPT ![t] = "raised"]
    /\ exc' = [exc EXCEPT ![t] = Exc(type, at)]
    /\ UNCHANGED <<ftp, sock, log>>

\* Leaving "with FTPS() as ftp" on an exception: the session is closed and the
\* exception ends the request
RaiseInWith(t, type, at) ==
    /\ ExitWith(t)
    /\ pc' = [pc EXCEPT ![t] = "raised"]
    /\ exc' = [exc EXCEPT ![t] = Exc(type, at)]

\* The lookup of the printer, do_print, kw['file'], first_filename = None, FTPS()
UploadBeginFrom(t, requests) ==
    /\ phase = "serving"
    /\ pc[t] = "idle"
    /\ \E pname \in PrinterNames \cup {"unknown"}, args \in requests :
          /\ kw' = [kw EXCEPT ![t] = args]
          /\ IF pname \notin PrinterNames
             THEN /\ pc' = [pc EXCEPT ![t] = "raised"]
                  /\ exc' = [exc EXCEPT ![t] = Exc("KeyError", "self.printers[pname]")]
                  /\ UNCHANGED <<printer, do_print, ftp, sock>>
             ELSE IF args.file = None
             THEN /\ printer' = [printer EXCEPT ![t] = PrinterNamed(pname)]
                  /\ do_print' = [do_print EXCEPT ![t] = DoPrint(args)]
                  /\ pc' = [pc EXCEPT ![t] = "raised"]
                  /\ exc' = [exc EXCEPT ![t] = Exc("KeyError", "kw['file']")]
                  /\ UNCHANGED <<ftp, sock>>
             ELSE /\ printer' = [printer EXCEPT ![t] = PrinterNamed(pname)]
                  /\ do_print' = [do_print EXCEPT ![t] = DoPrint(args)]
                  /\ ftp' = [ftp EXCEPT ![t] = "created"]
                  /\ sock' = sock
                  /\ pc' = [pc EXCEPT ![t] = "connect"]
                  /\ exc' = exc
    /\ UNCHANGED <<workers, phase, stop_i, first_filename, gen, newitem, status,
                   mqtt_of, mqtts, files, log>>

\* An upload with any of the requests of Kws
UploadBegin(t) == UploadBeginFrom(t, Kws)

\* ftp.connect(host=printer.host, port=990, timeout=30)
FtpConnect(t) ==
    /\ pc[t] = "connect"
    /\ \/ /\ ftp' = [ftp EXCEPT ![t] = "connected"]
          /\ sock' = [sock EXCEPT ![t] = SockSetter(t, Some(Socket(t)))]
          /\ log' = Append(log, Session(t, "CONNECT"))
          /\ pc' = [pc EXCEPT ![t] = "login"]
          /\ exc' = exc
       \/ RaiseInWith(t, "OSError", "ftp.connect")
    /\ UNCHANGED <<workers, phase, stop_i, locals, status, mqtt_of, mqtts, files>>

\* ftp.login('bblp', printer.key)
FtpLogin(t) ==
    /\ pc[t] = "login"
    /\ \/ /\ ftp' = [ftp EXCEPT ![t] = "logged_in"]
          /\ log' = Append(log, Session(t, "LOGIN"))
          /\ pc' = [pc EXCEPT ![t] = "prot_p"]
          /\ UNCHANGED <<sock, exc>>
       \/ RaiseInWith(t, "error_perm", "ftp.login")
    /\ UNCHANGED <<workers, phase, stop_i, locals, status, mqtt_of, mqtts, files>>

\* ftp.prot_p()
FtpProtP(t) ==
    /\ pc[t] = "prot_p"
    /\ \/ /\ ftp' = [ftp EXCEPT ![t] = "private"]
          /\ pc' = [pc EXCEPT ![t] = "next"]
          /\ UNCHANGED <<sock, exc, log>>
       \/ RaiseInWith(t, "error_perm", "ftp.prot_p")
    /\ UNCHANGED <<workers, phase, stop_i, locals, status, mqtt_of, mqtts, files>>

\* A splitter that runs to completion at its first step, as a list would be
\* built of its items: all plate archives are produced before the first store
ParseFileNext_Eager(t) ==
    /\ pc[t] = "next"
    /\ LET r == ParseNext(fp(t), gen[t]) IN
       CASE r.kind = "yield" ->
              /\ gen' = [gen EXCEPT ![t] = Len(gcode_files(fp(t).file))]
              /\ newitem' = [newitem EXCEPT ![t] = r.item]
              /\ first_filename' = [first_filename EXCEPT ![t] =
                                       IF @ = None THEN Some(r.item.filename) ELSE @]
              /\ pc' = [pc EXCEPT ![t] = "storbinary"]
              /\ UNCHANGED <<ftp, sock, exc, log>>
         [] r.kind = "stop" ->
              /\ ExitWith(t)
              /\ pc' = [pc EXCEPT ![t] = IF do_print[t] THEN "print_mqtt" ELSE "status"]
              /\ UNCHANGED <<gen, newitem, first_filename, exc>>
         [] OTHER ->
              /\ RaiseInWith(t, r.kind, "_parse_file")
              /\ UNCHANGED <<gen, newitem, first_filename>>
    /\ UNCHANGED <<workers, phase, stop_i, kw, printer, do_print, status, mqtt_of,
                   mqtts, files>>

\* The for statement asks the generator for its next item; the body's first
\* statement records first_filename.  When the generator is exhausted the
\* with block is left and the session closed.
ParseFileNext(t) ==
    /\ pc[t] = "next"
    /\ LET r == ParseNext(fp(t), gen[t]) IN
       CASE r.kind = "yield" ->
              /\ gen' = [gen EXCEPT ![t] = @ + 1]
              /\ newitem' = [newitem EXCEPT ![t] = r.item]
              /\ first_filename' = [first_filename EXCEPT ![t] =
                                       IF @ = None THEN Some(r.item.filename) ELSE @]
              /\ pc' = [pc EXCEPT ![t] = "storbinary"]
              /\ UNCHANGED <<ftp, sock, exc, log>>
         [] r.kind = "stop" ->
              /\ ExitWith(t)
              /\ pc' = [pc EXCEPT ![t] = IF do_print[t] THEN "print_mqtt" ELSE "status"]
              /\ UNCHANGED <<gen, newitem, first_filename, exc>>
         [] OTHER ->
              /\ RaiseInWith(t, r.kind, "_parse_file")
              /\ UNCHANGED <<gen, newitem, first_filename>>
    /\ UNCHANGED <<workers, phase, stop_i, kw, printer, do_print, status, mqtt_of,
                   mqtts, files>>

\* A loop that goes on to print as soon as the first file is stored
FtpStorbinary_PrintAfterFirst(t) ==
    /\ pc[t] = "storbinary"
    /\ LET host == printer[t].host
           path == StorPath(newitem[t].filename)
       IN \/ /\ files' = [files EXCEPT ![host] = Put(@, path, newitem[t].content)]
             /\ log' = Append(log, Stored(t, host, path, newitem[t].content))
             /\ pc' = [pc EXCEPT ![t] = IF do_print[t] THEN "print_mqtt" ELSE "next"]
             /\ UNCHANGED <<ftp, sock, exc>>
          \/ /\ RaiseInWith(t, "error_perm", "ftp.storbinary")
             /\ files' = files
    /\ UNCHANGED <<workers, phase, stop_i, locals, status, mqtt_of, mqtts>>

\* A loop that notes a failed store and goes on with the next plate
FtpStorbinary_ContinuesAfterError(t) ==
    /\ pc[t] = "storbinary"
    /\ LET host == printer[t].host
           path == StorPath(newitem[t].filename)
       IN \/ /\ files' = [files EXCEPT ![host] = Put(@, path, newitem[t].content)]
             /\ log' = Append(log, Stored(t, host, path, newitem[t].content))
             /\ exc' = exc
          \/ /\ exc' = [exc EXCEPT ![t] = Exc("error_perm", "ftp.storbinary")]
             /\ UNCHANGED <<files, log>>
    /\ pc' = [pc EXCEPT ![t] = "next"]
    /\ UNCHANGED <<workers, phase, stop_i, locals, ftp, sock, status, mqtt_of, mqtts>>

\* A loop whose body sets the response status after each store
FtpStorbinary_SetsStatus(t) ==
    /\ pc[t] = "storbinary"
    /\ LET host == printer[t].host
           path == StorPath(newitem[t].filename)
       IN \/ /\ files' = [files EXCEPT ![host] = Put(@, path, newitem[t].content)]
             /\ log' = Append(log, Stored(t, host, path, newitem[t].content))
             /\ pc' = [pc EXCEPT ![t] = "next"]
             /\ status' = [status EXCEPT ![t] = "201 Resource Created"]
             /\ UNCHANGED <<ftp, sock, exc>>
          \/ /\ RaiseInWith(t, "error_perm", "ftp.storbinary")
             /\ UNCHANGED <<files, status>>
    /\ UNCHANGED <<workers, phase, stop_i, locals, mqtt_of, mqtts>>

\* ftp.storbinary(f'STOR /model/{newfilename}', newfp)
FtpStorbinary(t) ==
    /\ pc[t] = "storbinary"
    /\ LET host == printer[t].host
           path == StorPath(newitem[t].filename)
       IN \/ /\ files' = [files EXCEPT ![host] = Put(@, path, newitem[t].content)]
             /\ log' = Append(log, Stored(t, host, path, newitem[t].content))
             /\ pc' = [pc EXCEPT ![t] = "next"]
             /\ UNCHANGED <<ftp, sock, exc>>
          \/ \* the server refuses the command
             /\ RaiseInWith(t, "error_perm", "ftp.storbinary")
             /\ files' = files
          \/ \* the connection breaks during the transfer
             /\ RaiseInWith(t, "OSError", "ftp.storbinary")
             /\ files' = [files EXCEPT ![host] = Put(@, path, Truncated)]
    /\ UNCHANGED <<workers, phase, stop_i, locals, status, mqtt_of, mqtts>>

\* printer.mqtt in the print branch
UploadMqtt(t) ==
    /\ pc[t] = "print_mqtt"
    /\ MqttGet(t, "print_mqtt_new", "send_json")
    /\ UNCHANGED <<workers, phase, stop_i, locals, ftp, sock, status, files, log>>

UploadMqttNew(t) ==
    /\ pc[t] = "print_mqtt_new"
    /\ MqttNew(t, "send_json")
    /\ UNCHANGED <<workers, phase, stop_i, locals, ftp, sock, status, files, log>>

\* printer.mqtt.send_json(f'device/{printer.serial}/request', {"print": print_data})
SendJson(t) ==
    /\ pc[t] = "send_json"
    /\ LET print_data == Update(PrintData(first_filename[t]), printer[t].print_options)
           id == mqtt_of[printer[t].name]
       IN /\ log' = Append(log, Published(t, mqtts[id].hostname, RequestTopic(printer[t]),
                                          [print |-> print_data]))
          /\ mqtts' = [mqtts EXCEPT ![id].queued = @ + 1]
    /\ pc' = [pc EXCEPT ![t] = "status"]
    /\ UNCHANGED <<workers, phase, stop_i, locals, ftp, sock, status, exc, mqtt_of, files>>

\* cherrypy.response.status = "201 Resource Created"
SetStatus(t) ==
    /\ pc[t] = "status"
    /\ status' = [status EXCEPT ![t] = "201 Resource Created"]
    /\ pc' = [pc EXCEPT ![t] = "done"]
    /\ UNCHANGED <<workers, phase, stop_i, locals, ftp, sock, exc, mqtt_of, mqtts, files, log>>

\* The thread started by client.loop_start() writes a queued message to the
\* connection; nothing is awaited from the printer
MqttLoop ==
    /\ \E id \in DOMAIN mqtts :
          /\ mqtts[id].state = "connected"
          /\ mqtts[id].queued > 0
          /\ mqtts' = [mqtts EXCEPT ![id].queued = @ - 1]
    /\ UNCHANGED <<workers, phase, stop_i, pc, locals, ftp, sock, status, exc, mqtt_of,
                   files, log>>

\* The status of the response cherrypy sends for the handler: the status the
\* handler set (200 when it set none), and for an exception that is not an
\* HTTPError, as every exception of version and upload, 500
ResponseStatus(t) ==
    IF exc[t] # NoExc THEN "500 Internal Server Error"
    ELSE IF status[t] = "unset" THEN "200 OK"
    ELSE status[t]

(***************************************************************************)
(* PrintAPI.stop, called by PandaServer.stop once the engine has exited     *)
(***************************************************************************)

\* PandaServer.stop: cherrypy.engine.exit() ends the request handling, then
\* self.api.stop() runs
ServerStop ==
    /\ phase = "serving"
    /\ \A t \in workers : pc[t] \in {"idle", "done", "raised"}
    /\ phase' = "stopping"
    /\ UNCHANGED <<workers, stop_i, pc, locals, ftp, sock, status, exc, mqtt_of, mqtts,
                   files, log>>

\* One turn of "for p in self.printers.values(): p.mqtt.stop()": the property
\* constructs the printer's MQTT instance when there is none
ApiStopPrinter ==
    /\ phase = "stopping"
    /\ stop_i <= Len(PrinterList)
    /\ LET p == PrinterList[stop_i]
           last == stop_i = Len(PrinterList)
       IN IF mqtt_of[p.name] # 0
          THEN /\ mqtts' = [mqtts EXCEPT ![mqtt_of[p.name]].state = "stopped"]
               /\ phase' = IF last THEN "stopped" ELSE phase
               /\ stop_i' = stop_i + 1
               /\ mqtt_of' = mqtt_of
          ELSE \/ /\ mqtts' = Append(mqtts, [NewMqtt(p.host) EXCEPT !.state = "stopped"])
                  /\ mqtt_of' = [mqtt_of EXCEPT ![p.name] = Len(mqtts) + 1]
                  /\ phase' = IF last THEN "stopped" ELSE phase
                  /\ stop_i' = stop_i + 1
               \/ \* client.connect raises and ends PrintAPI.stop
                  /\ phase' = "stop_raised"
                  /\ UNCHANGED <<stop_i, mqtts, mqtt_of>>
    /\ UNCHANGED <<workers, pc, locals, ftp, sock, status, exc, files, log>>

Next ==
    \/ \E t \in workers : VersionBegin(t)
    \/ \E t \in workers : VersionMqtt(t)
    \/ \E t \in workers : VersionMqttNew(t)
    \/ \E t \in workers : VersionReturn(t)
    \/ \E t \in workers : UploadBegin(t)
    \/ \E t \in workers : FtpConnect(t)
    \/ \E t \in workers : FtpLogin(t)
    \/ \E t \in workers : FtpProtP(t)
    \/ \E t \in workers : ParseFileNext(t)
    \/ \E t \in workers : FtpStorbinary(t)
    \/ \E t \in workers : UploadMqtt(t)
    \/ \E t \in workers : UploadMqttNew(t)
    \/ \E t \in workers : SendJson(t)
    \/ \E t \in workers : SetStatus(t)
    \/ MqttLoop
    \/ ServerStop
    \/ ApiStopPrinter

Spec == Init /\ [][Next]_vars

(***************************************************************************)
(* Requests one after another: three threads, each handling one request,   *)
(* and a request begins only when no other is being handled.               *)
(***************************************************************************)

Quiet == \A t \in workers : pc[t] \in {"idle", "done", "raised"}

InitSeq == InitWith({1, 2, 3})

NextSeq ==
    \/ \E t \in workers : Quiet /\ VersionBegin(t)
    \/ \E t \in workers : VersionMqtt(t)
    \/ \E t \in workers : VersionMqttNew(t)
    \/ \E t \in workers : VersionReturn(t)
    \/ \E t \in workers : Quiet /\ UploadBeginFrom(t, TestKws)
    \/ \E t \in workers : FtpConnect(t)
    \/ \E t \in workers : FtpLogin(t)
    \/ \E t \in workers : FtpProtP(t)
    \/ \E t \in workers : ParseFileNext(t)
    \/ \E t \in workers : FtpStorbinary(t)
    \/ \E t \in workers : UploadMqtt(t)
    \/ \E t \in workers : UploadMqttNew(t)
    \/ \E t \in workers : SendJson(t)
    \/ \E t \in workers : SetStatus(t)
    \/ MqttLoop
    \/ ServerStop
    \/ ApiStopPrinter

SpecSeq == InitSeq /\ [][NextSeq]_vars

(***************************************************************************)
(* Requests that overlap: two threads, each handling one request.          *)
(***************************************************************************)

InitOverlap == InitWith({1, 2})

NextOverlap ==
    \/ \E t \in workers : VersionBegin(t)
    \/ \E t \in workers : VersionMqtt(t)
    \/ \E t \in workers : VersionMqttNew(t)
    \/ \E t \in workers : VersionReturn(t)
    \/ \E t \in workers : UploadBeginFrom(t, OverlapKws)
    \/ \E t \in workers : FtpConnect(t)
    \/ \E t \in workers : FtpLogin(t)
    \/ \E t \in workers : FtpProtP(t)
    \/ \E t \in workers : ParseFileNext(t)
    \/ \E t \in workers : FtpStorbinary(t)
    \/ \E t \in workers : UploadMqtt(t)
    \/ \E t \in workers : UploadMqttNew(t)
    \/ \E t \in workers : SendJson(t)
    \/ \E t \in workers : SetStatus(t)
    \/ MqttLoop
    \/ ServerStop
    \/ ApiStopPrinter

SpecOverlap == InitOverlap /\ [][NextOverlap]_vars


(***************************************************************************)
(* The transfer client by itself: FTPS objects whose socket is assigned    *)
(* and replaced by their base class, with plain sockets, with sockets that *)
(* are wrapped already, and with None.                                     *)
(***************************************************************************)

\* The values assigned to self.sock: None, the plain sockets 1..MaxFd, and
\* the sockets above MaxFd, which come wrapped
SockValues(t) ==
    {None}
    \cup {Some(Socket(fd)) : fd \in 1..MaxFd}
    \cup {Some(wrap_socket(c, Socket(fd))) :
             c \in {0, Context(t)}, fd \in (MaxFd + 1)..(2 * MaxFd)}

\* FTPS(): self._sock = None
FtpsNew(t) ==
    /\ ftp[t] = "none"
    /\ ftp' = [ftp EXCEPT ![t] = "created"]
    /\ sock' = [sock EXCEPT ![t] = None]
    /\ UNCHANGED <<workers, phase, stop_i, pc, locals, status, exc, mqtt_of, mqtts,
                   files, log>>

\* self.sock = value
SockAssign(t) ==
    /\ ftp[t] = "created"
    /\ \E value \in SockValues(t) :
          \/ /\ sock' = [sock EXCEPT ![t] = SockSetter(t, value)]
             /\ exc' = exc
          \/ \* wrap_socket raises: the handshake fails, nothing is assigned
             /\ value # None /\ ~IsSSLSocket(Value(value))
             /\ exc' = [exc EXCEPT ![t] = Exc("SSLError", "context.wrap_socket")]
             /\ sock' = sock
    /\ UNCHANGED <<workers, phase, stop_i, pc, locals, ftp, status, mqtt_of, mqtts,
                   files, log>>

InitSock == InitWith({1, 2})

NextSock ==
    \/ \E t \in workers : FtpsNew(t)
    \/ \E t \in workers : SockAssign(t)

SpecSock == InitSock /\ [][NextSock]_vars

(***************************************************************************)
(* Vocabulary of the properties                                            *)
(***************************************************************************)

\* The worker handles an upload that reached the splitter's input
Uploading(t) == pc[t] # "idle" /\ kw[t].file # None /\ printer[t] # NoPrinter

\* The plate count of the uploaded archive
PlateCount(t) == Len(gcode_files(fp(t).file))

SinglePlate(t) == Uploading(t) /\ fp(t).file.zip /\ PlateCount(t) = 1

MultiPlate(t) == Uploading(t) /\ fp(t).file.zip /\ PlateCount(t) >= 2

\* The for loop over the splitter's outputs has ended normally
LoopDone(t) == pc[t] \in {"print_mqtt", "print_mqtt_new", "send_json", "status", "done"}

\* The completed stores and publishes of a worker, in order
StoresBy(t) == SelectSeq(log, LAMBDA e : e.op = "STOR" /\ e.by = t)
PublishesBy(t) == SelectSeq(log, LAMBDA e : e.op = "PUBLISH" /\ e.by = t)

\* The file at a path of the printer's FTP server, Truncated's sibling "absent"
Absent == [zip |-> FALSE, members |-> <<>>, writer |-> "absent"]
FileAt(host, path) == IF path \in DOMAIN files[host] THEN files[host][path] ELSE Absent

(***************************************************************************)
(* C1: a single-plate archive is passed through.  For an upload whose      *)
(* archive has exactly one member under Metadata/ ending in .gcode, the    *)
(* splitter yields one item and no more, the item is the uploaded filename *)
(* with the uploaded bytes themselves (not a rewritten archive), and once   *)
(* the loop has ended exactly that content is stored at                    *)
(* /model/<uploaded filename>.                                             *)
(***************************************************************************)
C1_SinglePlatePassthrough ==
    \A t \in workers :
        SinglePlate(t) =>
            /\ gen[t] <= 1
            /\ pc[t] = "storbinary" =>
                  /\ newitem[t].filename = fp(t).filename
                  /\ newitem[t].content = fp(t).file
            /\ \A i \in 1..Len(StoresBy(t)) :
                  /\ StoresBy(t)[i].name = ModelDir \o fp(t).filename
                  /\ StoresBy(t)[i].body = fp(t).file
            /\ LoopDone(t) =>
                  /\ gen[t] = 1
                  /\ Len(StoresBy(t)) = 1
                  /\ FileAt(printer[t].host, ModelDir \o fp(t).filename) = fp(t).file

\* A single-plate upload has completed and its file is on the printer
C1_Witness ==
    \E t \in workers :
        /\ SinglePlate(t)
        /\ pc[t] = "done"
        /\ Len(fp(t).file.members) > 1
        /\ FileAt(printer[t].host, ModelDir \o fp(t).filename) = fp(t).file


(***************************************************************************)
(* C2: the names of the plate archives.                                    *)
(***************************************************************************)

\* b is the filename without its trailing extension: all of it when it holds
\* no '.', what precedes its last '.' otherwise
IsBaseOf(b, filename) ==
    \/ /\ \A k \in 1..Len(filename) : filename[k] # "."
       /\ b = filename
    \/ \E k \in 1..Len(filename) :
          /\ filename[k] = "."
          /\ \A j \in (k + 1)..Len(filename) : filename[j] # "."
          /\ b = SubSeq(filename, 1, k - 1)

\* name is <base>-<i>.<ext> for the base of the filename
IsPlateNameOf(name, filename, i, ext) ==
    \E n \in 0..Len(filename) :
        /\ IsBaseOf(SubSeq(filename, 1, n), filename)
        /\ name = SubSeq(filename, 1, n) \o <<"-">> \o Str(i) \o <<".">> \o ext

\* e is the extension of a filename <base>.<ext>
IsExtOf(e, filename) ==
    \E k \in 1..Len(filename) :
        /\ filename[k] = "."
        /\ \A j \in (k + 1)..Len(filename) : filename[j] # "."
        /\ e = SubSeq(filename, k + 1, Len(filename))

\* name is <base>-<i>.<ext> with the extension of the filename <base>.<ext>
NamedWithOwnExt(name, filename, i) ==
    \A e \in {SubSeq(filename, k, Len(filename)) : k \in 1..(Len(filename) + 1)} :
        IsExtOf(e, filename) => IsPlateNameOf(name, filename, i, e)

\* name is <base>-<i>.3mf
Named3mf(name, filename, i) == IsPlateNameOf(name, filename, i, <<"3","m","f">>)

\* The names and the count of the plate archives, Named saying what the i-th
\* is called
PlateNaming(Named(_, _, _)) ==
    \A t \in workers :
        MultiPlate(t) =>
            /\ gen[t] <= PlateCount(t)
            /\ pc[t] = "storbinary" => Named(newitem[t].filename, fp(t).filename, gen[t])
            /\ Len(StoresBy(t)) <= gen[t]
            /\ \A i \in 1..Len(StoresBy(t)) :
                  /\ StartsWith(StoresBy(t)[i].name, ModelDir)
                  /\ Named(SubSeq(StoresBy(t)[i].name, Len(ModelDir) + 1,
                                  Len(StoresBy(t)[i].name)),
                           fp(t).filename, i)
            /\ LoopDone(t) =>
                  /\ gen[t] = PlateCount(t)
                  /\ Len(StoresBy(t)) = PlateCount(t)
            /\ FileAt(printer[t].host, ModelDir \o fp(t).filename) = Absent

HoldsPlate(t) == MultiPlate(t) /\ pc[t] = "storbinary"

MembersOf(bytes) == {bytes.members[i] : i \in 1..Len(bytes.members)}

NamesOf(bytes) == {m.name : m \in MembersOf(bytes)}

\* The plates of the archive are Metadata/plate_1.gcode .. Metadata/plate_N.gcode
PlatesNumbered1toN(t) ==
    LET gcodes == {m.name : m \in {x \in MembersOf(fp(t).file) : IsPlateGcode(x.name)}}
    IN gcodes = {PlatePath(k, GcodeSuffix) : k \in 1..PlateCount(t)}

(***************************************************************************)
(* C3 as claimed: whatever plate numbers the names of the source's         *)
(* machine-code members carry, every plate archive of a multi-plate upload *)
(* holds a member Metadata/plate_1.gcode.                                  *)
(***************************************************************************)
C3_Claimed_AnyPlateNumbers ==
    \A t \in workers :
        HoldsPlate(t) => Plate1Gcode \in NamesOf(newitem[t].content)

(***************************************************************************)
(* C3 amended: when the plates of the source are numbered 1..N (members    *)
(* Metadata/plate_<k>.gcode, k = 1..N, N >= 2), every plate archive holds  *)
(* a member Metadata/plate_1.gcode, whatever i it was made for.            *)
(***************************************************************************)
C3_CanonicalPlatePath ==
    \A t \in workers :
        (HoldsPlate(t) /\ PlatesNumbered1toN(t)) =>
            Plate1Gcode \in NamesOf(newitem[t].content)

\* The archive of a plate with a two-digit number is the loop's item
C3_Witness ==
    \E t \in workers :
        /\ HoldsPlate(t)
        /\ PlatesNumbered1toN(t)
        /\ gen[t] = 11
        /\ Plate1Gcode \in NamesOf(newitem[t].content)

(***************************************************************************)
(* C4 as claimed: every member of the source whose path does not start     *)
(* with Metadata/ is in every plate archive under its own path and with    *)
(* its own content.                                                        *)
(***************************************************************************)
C4_Claimed_SharedMembersUnchanged ==
    \A t \in workers :
        HoldsPlate(t) =>
            \A m \in MembersOf(fp(t).file) :
                ~StartsWith(m.name, MetadataPrefix) => m \in MembersOf(newitem[t].content)

(***************************************************************************)
(* C5: when the plates of the source are numbered 1..N, the archive of     *)
(* plate i holds one member Metadata/plate_1.gcode, and its content is the *)
(* content of the source's Metadata/plate_<i>.gcode.                       *)
(***************************************************************************)
C5_PlateContent ==
    \A t \in workers :
        (HoldsPlate(t) /\ PlatesNumbered1toN(t)) =>
            /\ Cardinality({i \in 1..Len(newitem[t].content.members) :
                               newitem[t].content.members[i].name = Plate1Gcode}) = 1
            /\ \A o \in MembersOf(newitem[t].content) :
                  o.name = Plate1Gcode =>
                      \E m \in MembersOf(fp(t).file) :
                          /\ m.name = PlatePath(gen[t], GcodeSuffix)
                          /\ o.data = m.data

\* The archive of plate 2 of three is the loop's item, with plate 2's content
C5_Witness ==
    \E t \in workers :
        /\ HoldsPlate(t)
        /\ PlatesNumbered1toN(t)
        /\ PlateCount(t) = 3
        /\ gen[t] = 2
        /\ Member(Plate1Gcode, Gcode(2)) \in MembersOf(newitem[t].content)

\* The digits of a string, in order
RECURSIVE DigitsIn(_)
DigitsIn(str) ==
    IF str = <<>> THEN <<>>
    ELSE (IF Head(str) \in {Digits[d] : d \in 1..10} THEN <<Head(str)>> ELSE <<>>)
         \o DigitsIn(Tail(str))

\* The part of a member's path before its first '.'
BeforeFirstDot(name) ==
    IF \E k \in 1..Len(name) : name[k] = "."
    THEN SubSeq(name, 1, (CHOOSE k \in 1..Len(name) :
                             name[k] = "." /\ \A j \in 1..(k - 1) : name[j] # ".") - 1)
    ELSE name

(***************************************************************************)
(* C6 as claimed: every plate archive of a multi-plate upload is a         *)
(* single-plate archive: one machine-code member under Metadata/, no two   *)
(* members of the same path, and no metadata member of another plate (the  *)
(* plate number every metadata member carries is 1).  It is stated here of *)
(* the archives most favourable to it, whose plates are numbered 1..N: it  *)
(* fails of them too, from N = 10 on.                                      *)
(***************************************************************************)
C6_Claimed_SinglePlateOutputs ==
    \A t \in workers :
        (HoldsPlate(t) /\ PlatesNumbered1toN(t)) =>
            LET out == newitem[t].content IN
            /\ Len(SelectSeq(out.members, LAMBDA m : IsPlateGcode(m.name))) = 1
            /\ Cardinality(NamesOf(out)) = Len(out.members)
            /\ \A m \in MembersOf(out) :
                  StartsWith(m.name, MetadataPrefix) =>
                      DigitsIn(BeforeFirstDot(m.name)) = <<"1">>


(***************************************************************************)
(* C7 to C10: the order of an upload's stores and of its publish           *)
(***************************************************************************)

\* How many items the splitter makes of the upload's archive
ExpectedItems(t) == IF PlateCount(t) = 1 THEN 1 ELSE PlateCount(t)

\* The positions of the worker's stores and publishes in the log
StorePositions(t) == {i \in 1..Len(log) : log[i].op = "STOR" /\ log[i].by = t}
PublishPositions(t) == {i \in 1..Len(log) : log[i].op = "PUBLISH" /\ log[i].by = t}

(***************************************************************************)
(* C7: within an upload the stores happen in plate order (the i-th store   *)
(* is the i-th item of the splitter, the archive named for plate i), the   *)
(* print command is published only when the last plate's store has         *)
(* completed, and no store of the upload follows its publish.              *)
(***************************************************************************)
C7_StoresThenPublish ==
    \A t \in workers :
        (Uploading(t) /\ fp(t).file.zip) =>
            /\ pc[t] = "storbinary" => Len(StoresBy(t)) = gen[t] - 1
            /\ pc[t] = "next" => Len(StoresBy(t)) = gen[t]
            /\ MultiPlate(t) =>
                  \A i \in 1..Len(StoresBy(t)) :
                      Named3mf(SubSeq(StoresBy(t)[i].name, Len(ModelDir) + 1,
                                      Len(StoresBy(t)[i].name)),
                               fp(t).filename, i)
            /\ PublishPositions(t) # {} => Len(StoresBy(t)) = ExpectedItems(t)
            /\ \A i \in PublishPositions(t) : \A j \in StorePositions(t) : j < i

\* A three-plate upload with the print flag has stored its plates and published
C7_Witness ==
    \E t \in workers :
        /\ MultiPlate(t)
        /\ PlateCount(t) = 3
        /\ Len(StoresBy(t)) = 3
        /\ Len(PublishesBy(t)) = 1
        /\ \A i \in PublishPositions(t) : \A j \in StorePositions(t) : j < i

(***************************************************************************)
(* C8 as claimed: every print command an upload publishes has the url      *)
(* file:///sdcard/model/<f>, <f> the filename of the first file the upload *)
(* stored, and the param Metadata/plate_1.gcode, also for an archive with  *)
(* no machine-code member under Metadata/.                                 *)
(***************************************************************************)
C8_Claimed_PrintsFirstStoredFile ==
    \A t \in workers :
        \A i \in PublishPositions(t) :
            /\ StoresBy(t) # <<>>
            /\ ModelDir \o SubSeq(log[i].body.print.url, Len(SdcardUrl) + 1,
                                  Len(log[i].body.print.url)) = StoresBy(t)[1].name
            /\ StartsWith(log[i].body.print.url, SdcardUrl)
            /\ log[i].body.print.param = Plate1Gcode

(***************************************************************************)
(* C9: an upload that ends with status 201 has published exactly one       *)
(* message, on device/<serial>/request, when its print field spells true   *)
(* (in any letter case), and otherwise has published nothing and has not   *)
(* constructed the printer's MQTT instance: while the server is serving,   *)
(* the printer has none.                                                   *)
(***************************************************************************)
C9_PublishIffPrintFlag ==
    \A t \in workers :
        (Uploading(t) /\ status[t] = "201 Resource Created") =>
            IF kw[t].print \in {{<<"t","r","u","e">>}, {<<"T","r","u","e">>}}
            THEN /\ Len(PublishesBy(t)) = 1
                 /\ PublishesBy(t)[1].name =
                       <<"d","e","v","i","c","e","/">> \o printer[t].serial
                           \o <<"/","r","e","q","u","e","s","t">>
            ELSE /\ PublishesBy(t) = <<>>
                 /\ phase = "serving" =>
                       (mqtts = <<>> /\ mqtt_of[printer[t].name] = 0)

\* An upload with print=True has ended with 201 and one published message
C9_Witness ==
    \E t \in workers :
        /\ Uploading(t)
        /\ status[t] = "201 Resource Created"
        /\ kw[t].print = {<<"T","r","u","e">>}
        /\ Len(PublishesBy(t)) = 1

\* The call of the FTP session that ended the upload, if one did
FtpFailed(t) ==
    exc[t].at \in {"ftp.connect", "ftp.login", "ftp.prot_p", "ftp.storbinary"}

(***************************************************************************)
(* C10: when connect, login, prot_p or a store fails, the upload has       *)
(* ended with the exception: status 201 is not set, nothing is published   *)
(* whatever the print flag, the plates after the failing one are not       *)
(* stored and the failing one is not stored again (the stores are the      *)
(* items before it, once each), and those are still on the printer.        *)
(***************************************************************************)
C10_FailedStoreEndsUpload ==
    \A t \in workers :
        FtpFailed(t) =>
            /\ pc[t] = "raised"
            /\ ftp[t] = "closed"
            /\ status[t] # "201 Resource Created"
            /\ PublishesBy(t) = <<>>
            /\ Len(StoresBy(t)) = IF exc[t].at = "ftp.storbinary" THEN gen[t] - 1 ELSE 0
            /\ \A i \in 1..Len(StoresBy(t)) :
                  FileAt(printer[t].host, StoresBy(t)[i].name) = StoresBy(t)[i].body

\* The store of the second of three plates failed in an upload with the print
\* flag; the first plate is on the printer
C10_Witness ==
    \E t \in workers :
        /\ FtpFailed(t)
        /\ exc[t].at = "ftp.storbinary"
        /\ do_print[t]
        /\ PlateCount(t) = 3
        /\ gen[t] = 2
        /\ Len(StoresBy(t)) = 1
        /\ FileAt(printer[t].host, StoresBy(t)[1].name) = StoresBy(t)[1].body

\* The request of the worker has returned or its exception has propagated
Ended(t) == pc[t] \in {"done", "raised"}

\* The worker entered "with FTPS() as ftp"
InSession(t) == ftp[t] # "none"

\* The positions of the worker's session events in the log
SessionPositions(t, op) == {i \in 1..Len(log) : log[i].op = op /\ log[i].by = t}

PrintRequested(pname) ==
    \E t \in workers : printer[t].name = pname /\ do_print[t]

\* The MQTT instances constructed for a printer, by id
PublishersOf(pname) ==
    {id \in DOMAIN mqtts : mqtts[id].hostname = PrinterNamed(pname).host}

(***************************************************************************)
(* C12 as claimed: a printer that has not received an upload with the      *)
(* print flag set has no MQTT instance constructed and no control          *)
(* connection opened, whatever the process has done so far: version        *)
(* requests, uploads without print, and PandaServer.stop included.         *)
(***************************************************************************)
C12_Claimed_NoPublisherWithoutPrint ==
    \A pname \in PrinterNames :
        ~PrintRequested(pname) =>
            /\ mqtt_of[pname] = 0
            /\ PublishersOf(pname) = {}

\* The statuses of a client error
ClientErrors == {"400 Bad Request", "404 Not Found", "422 Unprocessable Entity"}

\* The request named a printer that the configuration does not have
UnknownDevice(t) == exc[t] = Exc("KeyError", "self.printers[pname]")

(***************************************************************************)
(* C13 as claimed: a version or upload request that names a printer absent *)
(* from self.printers is answered with a client error, and it connects to  *)
(* nothing: no FTPS session is created or connected and no MQTT instance   *)
(* is constructed for any printer.                                         *)
(***************************************************************************)
C13_Claimed_UnknownDeviceClientError ==
    \A t \in workers :
        UnknownDevice(t) =>
            /\ ResponseStatus(t) \in ClientErrors
            /\ ftp[t] = "none"
            /\ SessionPositions(t, "CONNECT") = {}
            /\ phase = "serving" => mqtts = <<>>

\* The upload's file is not a ZIP archive
NotZipUpload(t) == Uploading(t) /\ ~fp(t).file.zip

(***************************************************************************)
(* C14 as claimed: an upload whose file is not a valid ZIP structure, and  *)
(* whose FTPS session did not fail before the file was looked at, ends     *)
(* with the malformed-archive exception (zipfile.BadZipFile), the caller   *)
(* is answered with a client error, nothing is stored on the printer and   *)
(* no print command is published.                                          *)
(***************************************************************************)
C14_Claimed_MalformedArchiveClientError ==
    \A t \in workers :
        (NotZipUpload(t) /\ Ended(t) /\ ~FtpFailed(t)) =>
            /\ exc[t].type = "BadZipFile"
            /\ ResponseStatus(t) \in ClientErrors
            /\ StoresBy(t) = <<>>
            /\ PublishesBy(t) = <<>>
            /\ files[printer[t].host] = <<>>

SplitComplete(t) == ParseNext(fp(t), gen[t]).kind # "yield"

\* The upload's session is connected
Connected(t) == ftp[t] \in {"connected", "logged_in", "private"}

HasPublisher(t) ==
    \/ pc[t] \in {"version_return", "send_json"}
    \/ pc[t] = "done" /\ status[t] = "200 OK"
    \/ PublishesBy(t) # <<>>

(***************************************************************************)
(* C17: one publisher per printer when requests do not overlap.  Under any *)
(* sequence of version requests and uploads handled one after another, and *)
(* the shutdown after them, at most one MQTT instance is ever constructed  *)
(* for a printer: it is the one the printer keeps, every request that has  *)
(* read printer.mqtt got that instance and every message went to its       *)
(* host, and it is stopped only when the process shuts down.               *)
(***************************************************************************)
C17_OnePublisherPerDevice ==
    \A pname \in PrinterNames :
        /\ Cardinality(PublishersOf(pname)) <= 1
        /\ mqtt_of[pname] # 0 <=> PublishersOf(pname) # {}
        /\ mqtt_of[pname] # 0 => mqtt_of[pname] \in PublishersOf(pname)
        /\ \A t \in workers :
              (printer[t].name = pname /\ HasPublisher(t)) => mqtt_of[pname] # 0
        /\ \A id \in PublishersOf(pname) :
              /\ mqtts[id].state = "stopped" => phase \in {"stopping", "stopped"}
              /\ phase = "stopped" => mqtts[id].state = "stopped"

\* A version request, then an upload with print, then another: the second and
\* third used the instance the first constructed, which shutdown has stopped
C17_Witness ==
    /\ phase = "stopped"
    /\ Len(mqtts) = 1
    /\ mqtts[1].state = "stopped"
    /\ \E t1, t2, t3 \in workers :
          /\ t1 # t2 /\ t2 # t3 /\ t1 # t3
          /\ status[t1] = "200 OK"
          /\ Len(PublishesBy(t2)) = 1
          /\ Len(PublishesBy(t3)) = 1
          /\ \A i \in PublishPositions(t2) : \A j \in PublishPositions(t3) : i < j

(***************************************************************************)
(* C18: the race of two first uses.  When two requests that overlap both   *)
(* find the printer without a publisher, both construct one, so two        *)
(* connections are open (the witness).  Whatever the interleaving, the     *)
(* printer keeps one instance only, the one assigned last; an instance it  *)
(* does not keep is never stopped, at shutdown either, where only the kept *)
(* one is stopped.                                                         *)
(***************************************************************************)
C18_RaceKeepsLastPublisher ==
    \A pname \in PrinterNames :
        /\ Cardinality(PublishersOf(pname)) <= Cardinality(workers)
        /\ PublishersOf(pname) # {} =>
              /\ mqtt_of[pname] \in PublishersOf(pname)
              /\ \A id \in PublishersOf(pname) : id <= mqtt_of[pname]
        /\ \A id \in PublishersOf(pname) :
              /\ id # mqtt_of[pname] => mqtts[id].state = "connected"
              /\ (id = mqtt_of[pname] /\ phase = "stopped") => mqtts[id].state = "stopped"

\* Both requests saw no publisher and constructed one; shutdown is over and
\* the first instance is still connected
C18_Witness ==
    /\ phase = "stopped"
    /\ Len(mqtts) = 2
    /\ mqtt_of["panda"] = 2
    /\ mqtts[1].state = "connected"
    /\ mqtts[2].state = "stopped"
    /\ \A t \in workers : HasPublisher(t) /\ printer[t].name = "panda"

\* The content of the last completed store to a path of a printer's server
LastStore(host, path) ==
    LET at == {i \in 1..Len(log) :
                  log[i].op = "STOR" /\ log[i].to = host /\ log[i].name = path}
    IN IF at = {} THEN Absent
       ELSE log[CHOOSE i \in at : \A j \in at : j <= i].body

\* The path on the printer that a published print command refers to
ReferencedPath(msg) ==
    ModelDir \o SubSeq(msg.body.print.url, Len(SdcardUrl) + 1, Len(msg.body.print.url))

(***************************************************************************)
(* C19: overlapping uploads to one printer are not kept apart.  Nothing    *)
(* orders the stores and publishes of two uploads: a file on the printer   *)
(* holds what the last store to its path wrote, whichever upload that was  *)
(* (or what a broken transfer left), and the print command of an upload    *)
(* names the path of its own first file whatever that path holds by then.  *)
(* So an upload B can store between upload A's first store and A's print   *)
(* command, and A's command then refers to a file with B's content (the    *)
(* witness).                                                               *)
(***************************************************************************)
C19_LastStoreWins ==
    /\ \A p \in Printers : \A path \in DOMAIN files[p.host] :
          files[p.host][path] \in {LastStore(p.host, path), Truncated}
    /\ \A t \in workers : \A i \in PublishPositions(t) :
          /\ log[i].body.print.url = SdcardUrl \o Format(first_filename[t])
          /\ \A j \in StorePositions(t) : j < i
          /\ StoresBy(t) # <<>> => ReferencedPath(log[i]) = StoresBy(t)[1].name

\* Upload B stored job.3mf after upload A had stored another archive under
\* that name and before A published its print command: the file that A's
\* command refers to holds B's content
C19_Witness ==
    \E a, b \in workers :
        /\ a # b
        /\ Len(StoresBy(a)) = 1 /\ Len(StoresBy(b)) = 1
        /\ StoresBy(a)[1].name = StoresBy(b)[1].name
        /\ StoresBy(a)[1].body # StoresBy(b)[1].body
        /\ \E i \in StorePositions(a), j \in StorePositions(b), k \in PublishPositions(a) :
              /\ i < j /\ j < k
              /\ FileAt(printer[a].host, ReferencedPath(log[k])) = StoresBy(b)[1].body

(***************************************************************************)
(* C20: the transport socket of a transfer client is absent or wrapped.    *)
(* Whatever is assigned to self.sock, in whatever order, what the client   *)
(* holds is None or an SSLSocket with exactly one TLS layer over the plain *)
(* socket: a plain socket is stored wrapped, a wrapped one is stored as it *)
(* is and not wrapped again, None clears it; a socket that was handed in   *)
(* plain is wrapped with the client's own context, one that was handed in  *)
(* wrapped keeps the context it came with.                                 *)
(***************************************************************************)
C20_SockAbsentOrWrapped ==
    \A t \in workers :
        sock[t] # None =>
            /\ IsSSLSocket(Value(sock[t]))
            /\ Value(sock[t]).layers = 1
            /\ Value(sock[t]).fd <= MaxFd => Value(sock[t]).context = Context(t)
            /\ Value(sock[t]).fd > MaxFd => sock[t] \in SockValues(t)

\* One client holds the socket it was handed wrapped by another context, as
\* it was; the other holds a plain socket it has wrapped with its own
C20_Witness ==
    \E t, u \in workers :
        /\ t # u
        /\ sock[t] = Some(wrap_socket(0, Socket(MaxFd + 1)))
        /\ sock[u] = Some(wrap_socket(Context(u), Socket(2)))
        /\ sock[u] = SockSetter(u, Some(Socket(2)))

=============================================================================
